---- MODULE Spec2Model ----
(***************************************************************************)
(* Model of the generation-request orchestration core of                   *)
(* apple-on-device-ai: the JS entry points (chat, the OpenAI-compatible     *)
(* chatCompletions handler, streamChatCompletion, streamResponse), the     *)
(* native unified dispatcher (appleAIGenerateUnified and its mode          *)
(* handlers), the StreamingCoordinator, the ToolCallCollector and the JS    *)
(* tool-call bridge callbacks.                                             *)
(***************************************************************************)
EXTENDS Naturals, Sequences, FiniteSets, TLC

\* ------------------------------------------------------------------ bounds
MaxRequests == 2      \* requests issued one after another
MaxTools == 2         \* tools a request may supply
MaxYields == 2        \* snapshots the runtime reports per generation
MaxToolCalls == 2     \* tool invocations the runtime makes per generation
MaxMessages == 2      \* messages of the request a context is built from
MaxToolIds == 2       \* distinct ids of tool outputs

\* ------------------------------------------------------------------ values
\* The k-th character of every text of the model is the letter k, so that the
\* chunks of a stream differ from one another. The next snapshot the runtime
\* reports repeats the previous one or extends it by one character.
Snapshots(last) == {last, Append(last, Len(last) + 1)}

\* What Swift hands to onChunk: nil, or a C string (an error carries the
\* ERROR_SENTINEL prefix).
NilRaw == [nil |-> TRUE, sentinel |-> FALSE, text |-> <<>>]
ChunkRaw(t) == [nil |-> FALSE, sentinel |-> FALSE, text |-> t]
emitError == [nil |-> FALSE, sentinel |-> TRUE, text |-> <<>>]

\* The arguments of the JS streaming callback (err, chunk) for one onChunk
\* call: nil is (null, null), a sentinel-prefixed string is (Error, -), any
\* other string is (null, string).
RustCallbackArgs(raw) ==
  IF raw.nil THEN [err |-> FALSE, null |-> TRUE, chunk |-> <<>>]
  ELSE IF raw.sentinel THEN [err |-> TRUE, null |-> FALSE, chunk |-> <<>>]
  ELSE [err |-> FALSE, null |-> FALSE, chunk |-> raw.text]

\* String(cumulative.dropFirst(prev.count))
DropFirst(s, k) == IF k >= Len(s) THEN <<>> ELSE SubSeq(s, k + 1, Len(s))

\* Faulty variant: the cumulative text itself is emitted
DeltaWhole(cumulative, prev) == cumulative

\* let delta = String(cumulative.dropFirst(prev.count))
Delta(cumulative, prev) == DropFirst(cumulative, Len(prev))

\* ------------------------------------------------- JS: chat() preparation
\* tools is [given, n]: the caller's tools option (omitted, or a list of n
\* tools). toolsJson / schemaJson are [present, n] / BOOLEAN: null or a string.
NoTools == [given |-> FALSE, n |-> 0]
ToolsOpt == {NoTools} \cup {[given |-> TRUE, n |-> k] : k \in 0..MaxTools}
NullJson == [present |-> FALSE, n |-> 0]

\* if (tools && tools.length > 0) { ... toolsJson = JSON.stringify(toolSchemas) }
ChatToolsJson(tools) ==
  IF tools.given /\ tools.n > 0 THEN [present |-> TRUE, n |-> tools.n] ELSE NullJson

\* if (!tools && schema) { schemaJson = ... }   (an empty array is truthy)
ChatSchemaJson(tools, schema) == (~tools.given) /\ schema

\* toolMap.size after chat()'s preparation
ChatToolMapSize(tools) == IF tools.given THEN tools.n ELSE 0

\* ------------------------------------------- native: mode of the dispatcher
\* if let toolsStr = toolsJsonString, !toolsStr.isEmpty  -> tools mode
\* else if let schemaStr = schemaJsonString, !schemaStr.isEmpty -> structured
\* else basic.  (JSON.stringify never yields the empty string.)
NativeMode(toolsJson, schemaJson) ==
  IF toolsJson.present THEN "TOOLS"
  ELSE IF schemaJson THEN "STRUCTURED"
  ELSE "BASIC"

\* ------------------------------------------------- StreamingCoordinator
CoordInit ==
  [expectedToolCount |-> 0, completedToolCount |-> 0,
   shouldStopAfterTools |-> FALSE, allToolsCompleted |-> FALSE]

reset(c, expectedTools, stopAfterToolCalls) ==
  [expectedToolCount |-> expectedTools, completedToolCount |-> 0,
   shouldStopAfterTools |-> stopAfterToolCalls, allToolsCompleted |-> FALSE]

toolCompleted(c) ==
  [c EXCEPT !.completedToolCount = @ + 1, !.allToolsCompleted = TRUE]

\* Faulty variants of the termination check: wait for all expected tools; fire only
\* while the count equals the expected count
shouldTerminateWhenAllDone(c) ==
  c.shouldStopAfterTools /\ c.completedToolCount >= c.expectedToolCount
  /\ c.allToolsCompleted

shouldTerminateOnExactCount(c) ==
  c.shouldStopAfterTools /\ c.completedToolCount = 1

shouldTerminateStream(c) ==
  c.shouldStopAfterTools /\ c.completedToolCount > 0

\* ------------------------------------------ native: streaming loop bodies
\* Faulty variant: the delta is emitted also when it is empty
handleBasicModeStreamStepUnguarded(prev, cumulative) ==
  [prev |-> cumulative, out |-> <<ChunkRaw(Delta(cumulative, prev))>>,
   brk |-> FALSE]

\* One iteration of `for try await cumulative in session.streamResponse(...)`
\* of handleBasicModeStream: [prev, out, brk].
handleBasicModeStreamStep(prev, cumulative) ==
  LET delta == Delta(cumulative, prev) IN
  [prev |-> cumulative,
   out |-> IF delta = <<>> THEN <<>> ELSE <<ChunkRaw(delta)>>,
   brk |-> FALSE]

\* Faulty variant: the delta is emitted first and the termination check made after it
handleToolsModeEmitThenCheck(c, stopAfterToolCalls, prev, cumulative) ==
  LET step == handleBasicModeStreamStep(prev, cumulative) IN
  [step EXCEPT !.brk = stopAfterToolCalls /\ shouldTerminateStream(c)]

\* One iteration of the streaming loop of handleToolsMode.
handleToolsModeStreamStep(c, stopAfterToolCalls, prev, cumulative) ==
  IF stopAfterToolCalls /\ shouldTerminateStream(c)
  THEN [prev |-> prev, out |-> <<>>, brk |-> TRUE]
  ELSE handleBasicModeStreamStep(prev, cumulative)

\* Faulty variant: the loop is left without the completion signal
NoCompletionSignal == <<>>

\* Faulty variant: completion is signalled twice
CompletionSignalTwice == <<NilRaw, NilRaw>>

\* `onChunk(nil)` after the loop of handleToolsMode / handleBasicModeStream
StreamCompletionSignal == <<NilRaw>>

\* ----------------------------------------------------------------- state
VARIABLES
  req,           \* the request in flight (or the last one): what the caller asked
  js,            \* the apple-ai.ts function serving it and what it prepared
  toolCallback,  \* the process-wide tool callback slot is armed
  nat,           \* the native generation task of the request
  coord,         \* StreamingCoordinator.shared
  collector,     \* ToolCallCollector.shared.calls: the number of records
  chan,          \* onChunk calls not yet run by the JS streaming callback
  strm,          \* the JS side of the stream: Readable or hand-written iterator
  cons,          \* what the consumer of the call has got
  http,          \* the HTTP response of a chatCompletions request
  hist           \* history: tool completions since, and the stopAfterToolCalls
                 \* argument of, the last reset of the coordinator
VARIABLES
  bridge,        \* the apple-ai.ts function that registered the tool callback,
                 \* the number of tools of its request, the callback slot
  invs           \* the invocations of that callback, in order
VARIABLES
  slot,          \* two requests in flight: the request whose callback the
                 \* process-wide slot holds (0: none)
  sharedCoord,   \* StreamingCoordinator.shared
  reqs,          \* the two requests: phase, options, tool invocations
  own,           \* history: per request, the stopAfterToolCalls of its own
                 \* reset and its own tool completions since
  sharedCalls    \* ToolCallCollector.shared.calls: for each record, the
                 \* request whose session made the invocation
VARIABLES
  input,         \* the transcript builder: the messages of a request
  ctx,           \* the ConversationContext built from them
  sess           \* the mode of the request and the transcript its session
                 \* was opened with
VARIABLES
  server,        \* the HTTP server: whether it is up, and its bearerToken option
  hreq,          \* the HTTP request being served: url, authorization header
  hres           \* its response: status, ended, and the route handler reached
VARIABLES
  schemaIn,      \* the schema compiler: the JSON schema of a request
  dynamic        \* the DynamicGenerationSchema compiled from it
VARIABLES
  vercel         \* streamChatForVercelAISDK: its closure and its Readable
VARIABLES
  sel            \* the choice of a mode: a request at an entry point, the
                 \* arguments of the native call made for it, the mode chosen

mainVars == <<req, js, toolCallback, nat, coord, collector, chan, strm, cons, http, hist>>

bridgeVars == <<bridge, invs>>

concVars == <<slot, sharedCoord, reqs, own, sharedCalls>>

builderVars == <<input, ctx, sess>>

authVars == <<server, hreq, hres>>

compileVars == <<schemaIn, dynamic>>

vercelVars == <<vercel>>

selVars == <<sel>>

extVars == <<authVars, compileVars, vercelVars, selVars>>

vars == <<mainVars, bridgeVars, concVars, builderVars, extVars>>

\* Two chat() requests with tools, in flight at the same time.
TwoRequests == {1, 2}

ReqIdle ==
  [phase |-> "idle", stream |-> FALSE, stop |-> TRUE, n |-> 0, calls |-> 0,
   handledBy |-> {}, unhandled |-> FALSE, early |-> FALSE, got |-> <<>>]

Entries == {"chat", "chatCompletions", "streamChatCompletion", "streamResponse"}

\* The two functions that return a hand-written iterator.
IteratorEntries == {"streamChatCompletion", "streamResponse"}

\* What can be wrong with a request when the native task runs: the model is
\* not available; the messages JSON does not decode to [ChatMessage]
\* ("undecodable") or decodes to an empty list ("empty"); the tools or schema
\* JSON is no JSON text ("notJson"), is not of the expected shape
\* ("wrongShape"), or GenerationSchema rejects it ("uncompilable").
NoFaults == [avail |-> TRUE, msgs |-> "ok", modeIn |-> "ok"]

PrepareFaults ==
  [avail : BOOLEAN, msgs : {"ok", "empty", "undecodable"},
   modeIn : {"ok", "notJson", "wrongShape", "uncompilable"}]

NatIdle ==
  [phase |-> "idle", streaming |-> FALSE, toolsJson |-> NullJson,
   schemaJson |-> FALSE, stop |-> FALSE, mode |-> "none", prev |-> <<>>,
   last |-> <<>>,
   yields |-> 0, calls |-> 0, out |-> <<>>, failed |-> FALSE, early |-> FALSE,
   result |-> "none", faults |-> NoFaults, error |-> "none"]

StrmInit ==
  [queue |-> <<>>, done |-> FALSE, error |-> FALSE, pending |-> FALSE,
   ended |-> FALSE, destroyed |-> FALSE, returned |-> FALSE, allowed |-> 0]

ConsInit == [recv |-> <<>>, outcome |-> "none", result |-> "none"]

HttpInit == [out |-> <<>>, ended |-> FALSE, status |-> 0]

Init ==
  /\ req = [id |-> 0, entry |-> "none", stream |-> FALSE, tools |-> NoTools,
            schema |-> FALSE, stop |-> FALSE]
  /\ js = [api |-> "none", stream |-> FALSE, toolMapSize |-> 0]
  /\ toolCallback = FALSE
  /\ nat = NatIdle
  /\ coord = CoordInit
  /\ collector = 0
  /\ chan = <<>>
  /\ strm = StrmInit
  /\ cons = ConsInit
  /\ http = HttpInit
  /\ hist = [sinceReset |-> 0, stopAtReset |-> FALSE]
  /\ bridge = [variant |-> "none", n |-> 0, stream |-> FALSE,
               registered |-> FALSE, armed |-> FALSE, gen |-> "none",
               clears |-> 0, destroyed |-> FALSE]
  /\ invs = <<>>
  /\ slot = 0
  /\ sharedCoord = CoordInit
  /\ reqs = [r \in TwoRequests |-> ReqIdle]
  /\ own = [r \in TwoRequests |-> [stop |-> FALSE, sinceReset |-> 0]]
  /\ sharedCalls = <<>>
  /\ input = <<>>
  /\ ctx = [state |-> "none", currentPrompt |-> "", transcriptEntries |-> <<>>]
  /\ sess = [mode |-> "none", tools |-> 0, entries |-> <<>>]
  /\ server = [state |-> "down", bearerToken |-> <<>>]
  /\ hreq = [url |-> <<>>, authorization |-> [present |-> FALSE, value |-> <<>>],
             stage |-> "none"]
  /\ hres = [status |-> 200, ended |-> FALSE, error |-> "none", handler |-> "none"]
  /\ schemaIn = [kind |-> "none"]
  /\ dynamic = [kind |-> "none"]
  /\ vercel = [phase |-> "idle", n |-> 0, registered |-> FALSE,
               collected |-> <<>>, events |-> <<>>, texts |-> 0,
               generationComplete |-> FALSE, eofs |-> 0, ends |-> 0,
               destroyed |-> FALSE]
  /\ sel = [stage |-> "none", entry |-> "none", stream |-> FALSE,
            tools |-> NoTools, schema |-> FALSE,
            args |-> [toolsJson |-> NullJson, schemaJson |-> FALSE,
                      stream |-> FALSE, stop |-> TRUE],
            mode |-> "none"]

\* --------------------------------------------------- JS: the entry points
\* The branch chatCompletions takes: `tools && tools.length > 0`, else
\* `response_format?.type === "json_schema" && response_format.json_schema`,
\* else the plain branch.
HttpRoute(tools, schema) ==
  IF tools.given /\ tools.n > 0 THEN "tools"
  ELSE IF schema THEN "schema"
  ELSE "plain"

\* The call into apple-ai.ts an entry point makes for a request:
\* [api, stream, tools, schema, stop].
InnerCall(entry, stream, tools, schema, stop) ==
  IF entry = "chat"
  THEN [api |-> "chat", stream |-> stream, tools |-> tools, schema |-> schema,
        stop |-> stop]
  ELSE IF entry = "chatCompletions"
  THEN CASE HttpRoute(tools, schema) = "tools" ->
              [api |-> "chat", stream |-> stream, tools |-> tools,
               schema |-> FALSE, stop |-> TRUE]
         [] HttpRoute(tools, schema) = "schema" ->
              [api |-> "chat", stream |-> FALSE, tools |-> NoTools,
               schema |-> TRUE, stop |-> TRUE]
         [] OTHER ->
              [api |-> IF stream THEN "streamChatCompletion"
                       ELSE "generateResponseWithHistory",
               stream |-> stream, tools |-> NoTools, schema |-> FALSE,
               stop |-> TRUE]
  ELSE [api |-> entry, stream |-> TRUE, tools |-> NoTools, schema |-> FALSE,
        stop |-> TRUE]

\* Faulty variant: a schema is passed on whenever given, the tools only without one
NativeArgsSchemaFirst(call) ==
  IF call.api = "chat"
  THEN [toolsJson |-> IF call.schema THEN NullJson ELSE ChatToolsJson(call.tools),
        schemaJson |-> call.schema,
        stream |-> call.stream, stop |-> call.stop]
  ELSE [toolsJson |-> NullJson, schemaJson |-> FALSE, stream |-> call.stream,
        stop |-> TRUE]

\* The arguments of unifiedBindings.generateUnified / generateUnifiedStream.
NativeArgs(call) ==
  IF call.api = "chat"
  THEN [toolsJson |-> ChatToolsJson(call.tools),
        schemaJson |-> ChatSchemaJson(call.tools, call.schema),
        stream |-> call.stream, stop |-> call.stop]
  ELSE [toolsJson |-> NullJson, schemaJson |-> FALSE, stream |-> call.stream,
        stop |-> TRUE]

\* No request is in flight: the caller of the last one has its outcome.
Quiet ==
  \/ req.id = 0
  \/ cons.outcome # "none" /\ nat.phase = "done" /\ chan = <<>>

\* A caller issues a request. The synchronous prefix of the entry point runs:
\* chat() builds toolsJson and schemaJson and arms the tool callback, then the
\* native generation is started. stopAfterToolCalls is read by a tools stream
\* only; every other request leaves it at its default (true). chatCompletions
\* asks checkAvailability first and answers 503 itself when the model is
\* not available; no other entry point asks.
Start(entries) ==
  /\ Quiet
  /\ req.id < MaxRequests
  /\ \E entry \in entries, stream \in BOOLEAN, tools \in ToolsOpt,
        schema \in BOOLEAN, stop \in BOOLEAN, available \in BOOLEAN :
       /\ entry \in {"streamChatCompletion", "streamResponse"} =>
            stream /\ tools = NoTools /\ ~schema /\ stop
       /\ entry = "chatCompletions" => stop
       /\ entry # "chatCompletions" => available
       /\ ~(stream /\ tools.given /\ tools.n > 0) => stop
       /\ req' = [id |-> req.id + 1, entry |-> entry, stream |-> stream,
                  tools |-> tools, schema |-> schema, stop |-> stop]
       /\ IF available
          THEN LET call == InnerCall(entry, stream, tools, schema, stop)
                   args == NativeArgs(call)
               IN
               /\ js' = [api |-> call.api, stream |-> call.stream,
                         toolMapSize |-> IF call.api = "chat"
                                         THEN ChatToolMapSize(call.tools)
                                         ELSE 0]
               /\ toolCallback' = IF call.api = "chat" /\ args.toolsJson.present
                                  THEN TRUE ELSE toolCallback
               /\ nat' = [NatIdle EXCEPT !.phase = "start",
                            !.streaming = args.stream,
                            !.toolsJson = args.toolsJson,
                            !.schemaJson = args.schemaJson, !.stop = args.stop]
               /\ cons' = ConsInit
               /\ http' = HttpInit
          ELSE /\ js' = [api |-> "none", stream |-> FALSE, toolMapSize |-> 0]
               /\ toolCallback' = toolCallback
               /\ nat' = [NatIdle EXCEPT !.phase = "done"]
               /\ cons' = [ConsInit EXCEPT !.outcome = "refused"]
               /\ http' = [HttpInit EXCEPT !.status = 503, !.ended = TRUE]
  /\ chan' = <<>>
  /\ strm' = StrmInit
  /\ UNCHANGED <<concVars, builderVars, extVars, bridge, invs, coord, collector, hist>>

StartRequest == Start(Entries)

\* A caller asks for one of the hand-written iterators.
StartIterator == Start(IteratorEntries)

\* ------------------------------------------------ native: the generation
\* The catch branches of appleAIGenerateUnified: the three cases of
\* ConversationError, and "other" for the untyped catch, which reports
\* error.localizedDescription.

\* Faulty variant: an empty list of messages is let through
ContextErrorEmptyAllowed(f) ==
  IF ~f.avail THEN "intelligenceUnavailable"
  ELSE IF f.msgs = "undecodable" THEN "other"
  ELSE "none"

\* prepareConversationContext: what it throws ("none": it returns a context)
ContextError(f) ==
  IF ~f.avail THEN "intelligenceUnavailable"
  ELSE IF f.msgs = "undecodable" THEN "other"
  ELSE IF f.msgs = "empty" THEN "noMessages"
  ELSE "none"

\* The prologue of handleToolsMode and handleStructuredMode: JSONSerialization
\* throws on a text that is no JSON, the guard throws invalidJSON on a JSON of
\* another shape, GenerationSchema throws on a schema it does not accept.
ModeError(modeIn) ==
  CASE modeIn = "notJson" -> "other"
    [] modeIn = "wrongShape" -> "invalidJSON"
    [] modeIn = "uncompilable" -> "other"
    [] OTHER -> "none"

\* What the tools or schema JSON that chat() serialises can be: toolsJson is
\* always an array of objects, schemaJson is whatever the caller passed.
ModeFaults(mode, streaming) ==
  CASE mode = "TOOLS" -> {"ok", "uncompilable"}
    [] mode = "STRUCTURED" /\ ~streaming ->
         {"ok", "notJson", "wrongShape", "uncompilable"}
    [] OTHER -> {"ok"}

\* The task of appleAIGenerateUnified up to the opening of the session:
\* prepareConversationContext, the choice of the mode and the prologue of the
\* mode's handler. `f` is what is wrong with the request. A structured
\* stream is refused before its schema is looked at.
NativePrepare ==
  /\ nat.phase = "start"
  /\ \E f \in PrepareFaults :
       LET mode == NativeMode(nat.toolsJson, nat.schemaJson)
           structuredStream == mode = "STRUCTURED" /\ nat.streaming
           ctxErr == ContextError(f)
           error == IF ctxErr # "none" THEN ctxErr
                    ELSE IF structuredStream THEN "unsupported"
                    ELSE ModeError(f.modeIn)
           errOut == IF nat.streaming THEN <<emitError>> ELSE <<>>
       IN
       /\ f.msgs # "ok" => js.api # "streamResponse"
       /\ f.modeIn \in ModeFaults(mode, nat.streaming)
       /\ IF error # "none"
          THEN /\ nat' = [nat EXCEPT !.phase = "done", !.failed = TRUE,
                            !.mode = IF ctxErr # "none" THEN "none" ELSE mode,
                            !.out = @ \o errOut,
                            !.result = IF nat.streaming THEN "none" ELSE "error",
                            !.faults = f, !.error = error]
               /\ chan' = chan \o errOut
               /\ UNCHANGED <<coord, collector, hist>>
          ELSE /\ nat' = [nat EXCEPT !.phase = "session", !.mode = mode,
                            !.faults = f]
               /\ chan' = chan
               /\ collector' = IF mode = "TOOLS" THEN 0 ELSE collector
               /\ IF mode = "TOOLS" /\ nat.streaming
                  THEN /\ coord' = reset(coord, nat.toolsJson.n, nat.stop)
                       /\ hist' = [sinceReset |-> 0, stopAtReset |-> nat.stop]
                  ELSE UNCHANGED <<coord, hist>>
  /\ UNCHANGED <<concVars, builderVars, extVars, bridge, invs, req, js, toolCallback, strm, cons, http>>

\* JSProxyTool.call: the runtime invokes one of the request's tools.
SessionToolCall ==
  /\ nat.phase = "session"
  /\ nat.mode = "TOOLS"
  /\ nat.calls < MaxToolCalls
  /\ nat' = [nat EXCEPT !.calls = @ + 1]
  /\ IF toolCallback
     THEN /\ collector' = collector + 1
          /\ coord' = toolCompleted(coord)
          /\ hist' = [hist EXCEPT !.sinceReset = @ + 1]
     ELSE UNCHANGED <<collector, coord, hist>>
  /\ UNCHANGED <<concVars, builderVars, extVars, bridge, invs, req, js, toolCallback, chan, strm, cons, http>>

\* The runtime reports the next cumulative text of a streaming generation and
\* the loop body of the mode's handler runs on it.
SessionYield ==
  /\ nat.phase = "session"
  /\ nat.streaming
  /\ nat.yields < MaxYields
  /\ \E cumulative \in Snapshots(nat.last) :
       LET step == IF nat.mode = "TOOLS"
                   THEN handleToolsModeStreamStep(coord, nat.stop, nat.prev,
                                                  cumulative)
                   ELSE handleBasicModeStreamStep(nat.prev, cumulative)
           raws == step.out \o (IF step.brk THEN StreamCompletionSignal ELSE <<>>)
       IN
       /\ nat' = [nat EXCEPT !.yields = @ + 1, !.prev = step.prev,
                    !.last = cumulative,
                    !.out = @ \o raws, !.early = step.brk,
                    !.phase = IF step.brk THEN "done" ELSE @]
       /\ chan' = chan \o raws
  /\ UNCHANGED <<concVars, builderVars, extVars, bridge, invs, req, js, toolCallback, coord, collector, strm, cons, http, hist>>

\* The runtime's sequence ends: the loop is left and completion is signalled.
SessionEnd ==
  /\ nat.phase = "session"
  /\ nat.streaming
  /\ nat' = [nat EXCEPT !.phase = "done", !.out = @ \o StreamCompletionSignal]
  /\ chan' = chan \o StreamCompletionSignal
  /\ UNCHANGED <<concVars, builderVars, extVars, bridge, invs, req, js, toolCallback, coord, collector, strm, cons, http, hist>>

\* Faulty variant: the text of the response is returned whatever was collected
ToolsResultTextOnly(calls) == "text"

\* The result JSON of a non-streaming handleToolsMode, given the number of
\* records in the collector: "toolCalls" is {text: "", toolCalls: [...]},
\* "text" is {text: response.content}.
ToolsResult(calls) == IF calls > 0 THEN "toolCalls" ELSE "text"

\* session.respond returns: the result JSON of the mode's handler.
SessionRespond ==
  /\ nat.phase = "session"
  /\ ~nat.streaming
  /\ nat' = [nat EXCEPT !.phase = "done",
               !.result = CASE nat.mode = "STRUCTURED" -> "object"
                            [] nat.mode = "TOOLS" -> ToolsResult(collector)
                            [] OTHER -> "text"]
  /\ UNCHANGED <<concVars, builderVars, extVars, bridge, invs, req, js, toolCallback, coord, collector, chan, strm, cons, http, hist>>

\* The runtime throws: emitError on a stream, an "Error: ..." result otherwise.
SessionThrow ==
  /\ nat.phase = "session"
  /\ LET errOut == IF nat.streaming THEN <<emitError>> ELSE <<>> IN
     /\ nat' = [nat EXCEPT !.phase = "done", !.failed = TRUE,
                  !.out = @ \o errOut, !.error = "other",
                  !.result = IF nat.streaming THEN "none" ELSE "error"]
     /\ chan' = chan \o errOut
  /\ UNCHANGED <<concVars, builderVars, extVars, bridge, invs, req, js, toolCallback, coord, collector, strm, cons, http, hist>>

\* ------------------------------------------- JS: the consumer of a stream
\* The body of the consumer's `for await` loop. For chatCompletions the
\* consumer is the handler: it writes an SSE data line per chunk, then
\* `data: [DONE]` and res.end(), or the error line and res.end() in its catch.
Item(text, final) == [text |-> text, final |-> final]

HttpWrites(h, lines, end) ==
  IF req.entry = "chatCompletions"
  THEN [h EXCEPT !.out = @ \o lines, !.ended = end]
  ELSE h

Got(item) ==
  /\ cons' = [cons EXCEPT !.recv = Append(@, item)]
  /\ http' = HttpWrites(http, <<"data">>, FALSE)

\* Faulty variant: the response is ended without the [DONE] line
GotEndWithoutDone ==
  /\ cons' = [cons EXCEPT !.outcome = "end"]
  /\ http' = HttpWrites(http, <<>>, TRUE)

\* The loop of the handler is over: `data: [DONE]` and res.end()
GotEnd ==
  /\ cons' = [cons EXCEPT !.outcome = "end"]
  /\ http' = HttpWrites(http, <<"[DONE]">>, TRUE)

GotError ==
  /\ cons' = [cons EXCEPT !.outcome = "error"]
  /\ http' = HttpWrites(http, <<"error">>, TRUE)

Readable == js.api = "chat"

\* ---------------------------------------- JS: the streaming callbacks
\* Faulty variant: the chunk is put at the front of the buffer
QueueUnshift(queue, chunk) == <<chunk>> \o queue

\* queue.push(chunk) of the hand-written iterators
QueuePush(queue, chunk) == Append(queue, chunk)

\* chat(): the callback given to generateUnifiedStream, on a Readable.
chatOnChunk(a) ==
  /\ IF a.err
     THEN strm' = [strm EXCEPT !.destroyed = TRUE, !.error = TRUE, !.queue = <<>>]
     ELSE IF a.null \/ a.chunk = <<>>
     THEN strm' = [strm EXCEPT !.ended = TRUE]
     ELSE strm' = [strm EXCEPT !.queue = Append(@, Item(a.chunk, FALSE))]
  /\ toolCallback' = IF (a.err \/ a.null \/ a.chunk = <<>>) /\ js.toolMapSize > 0
                     THEN FALSE ELSE toolCallback
  /\ UNCHANGED <<cons, http>>

\* handleChunk of streamChatCompletion.
streamChatCompletionHandleChunk(a) ==
  /\ IF a.err
     THEN /\ strm' = [strm EXCEPT !.error = TRUE, !.done = TRUE, !.pending = FALSE]
          /\ IF strm.pending THEN GotError ELSE UNCHANGED <<cons, http>>
     ELSE LET final == a.null \/ a.chunk = <<>>
              chatChunk == Item(a.chunk, final)
          IN
          /\ strm' = [strm EXCEPT !.done = IF final THEN TRUE ELSE @,
                        !.pending = FALSE,
                        !.queue = IF strm.pending THEN @
                                  ELSE QueuePush(@, chatChunk)]
          /\ IF strm.pending THEN Got(chatChunk) ELSE UNCHANGED <<cons, http>>
  /\ UNCHANGED toolCallback

\* handleChunk of streamResponse.
streamResponseHandleChunk(a) ==
  /\ IF a.err
     THEN /\ strm' = [strm EXCEPT !.error = TRUE, !.done = TRUE, !.pending = FALSE]
          /\ IF strm.pending THEN GotError ELSE UNCHANGED <<cons, http>>
     ELSE IF a.null \/ a.chunk = <<>>
     THEN /\ strm' = [strm EXCEPT !.done = TRUE, !.pending = FALSE]
          /\ IF strm.pending THEN GotEnd ELSE UNCHANGED <<cons, http>>
     ELSE /\ strm' = [strm EXCEPT !.pending = FALSE,
                        !.queue = IF strm.pending THEN @
                                  ELSE QueuePush(@, Item(a.chunk, FALSE))]
          /\ IF strm.pending THEN Got(Item(a.chunk, FALSE))
             ELSE UNCHANGED <<cons, http>>
  /\ UNCHANGED toolCallback

\* The JS event loop runs the streaming callback for the oldest onChunk call.
JsOnChunk ==
  /\ chan # <<>>
  /\ chan' = Tail(chan)
  /\ LET a == RustCallbackArgs(Head(chan)) IN
     CASE js.api = "chat" -> chatOnChunk(a)
       [] js.api = "streamChatCompletion" -> streamChatCompletionHandleChunk(a)
       [] OTHER -> streamResponseHandleChunk(a)
  /\ UNCHANGED <<concVars, builderVars, extVars, bridge, invs, req, js, nat, coord, collector, hist>>

\* next() of the iterator of a Readable: the error of a destroyed stream,
\* else the oldest buffered chunk, else the end once push(null) was called;
\* otherwise the call waits inside the stream.
ReadableNext ==
  /\ Readable
  /\ IF strm.destroyed
     THEN GotError /\ UNCHANGED strm
     ELSE IF strm.queue # <<>>
     THEN Got(Head(strm.queue)) /\ strm' = [strm EXCEPT !.queue = Tail(@)]
     ELSE strm.ended /\ GotEnd /\ UNCHANGED strm

\* next() of the iterators of streamChatCompletion and streamResponse.
IteratorNext ==
  /\ ~Readable
  /\ ~strm.pending
  /\ IF strm.queue # <<>>
     THEN Got(Head(strm.queue)) /\ strm' = [strm EXCEPT !.queue = Tail(@)]
     ELSE IF strm.done
     THEN GotEnd /\ UNCHANGED strm
     ELSE IF strm.error
     THEN GotError /\ UNCHANGED strm
     ELSE strm' = [strm EXCEPT !.pending = TRUE] /\ UNCHANGED <<cons, http>>

\* The consumer of a streaming call asks for the next chunk.
ConsumerNext ==
  /\ req.id > 0
  /\ js.stream
  /\ cons.outcome = "none"
  /\ (ReadableNext \/ IteratorNext)
  /\ UNCHANGED <<concVars, builderVars, extVars, bridge, invs, req, js, toolCallback, nat, coord, collector, chan, hist>>

\* return() of the iterators of streamChatCompletion and streamResponse:
\* `done = true`, nothing else. `returned` and `allowed` are history: that
\* return() was called, and how many chunks the consumer may have got from
\* the next() calls made before it (one more than it has if a next() is
\* waiting).
IteratorReturn ==
  /\ req.id > 0
  /\ js.stream
  /\ ~Readable
  /\ cons.outcome = "none"
  /\ ~strm.returned
  /\ strm' = [strm EXCEPT !.done = TRUE, !.returned = TRUE,
                 !.allowed = Len(cons.recv) + IF strm.pending THEN 1 ELSE 0]
  /\ UNCHANGED <<concVars, builderVars, extVars, bridge, invs, req, js, toolCallback, nat, coord, collector, chan, cons, http, hist>>

\* --------------------------------------- JS: the end of a non-streaming call
\* Faulty variant: generateResponseWithHistory returns the raw string
SettledWithRawText(api, schemaJson, raw) ==
  IF raw = "error" /\ api = "chat" THEN [outcome |-> "rejected", result |-> "none"]
  ELSE IF api = "chat" /\ schemaJson /\ raw = "object"
  THEN [outcome |-> "resolved", result |-> "object"]
  ELSE IF api = "chat" /\ raw = "toolCalls"
  THEN [outcome |-> "resolved", result |-> "toolCalls"]
  ELSE [outcome |-> "resolved", result |-> "text"]

\* What the promise of the apple-ai.ts function settles with, given the raw
\* result: chat() throws on an "Error: " prefix and picks the result shape;
\* generateResponseWithHistory fails in JSON.parse on such a string.
Settled(api, schemaJson, raw) ==
  IF raw = "error" THEN [outcome |-> "rejected", result |-> "none"]
  ELSE IF api = "chat" /\ schemaJson /\ raw = "object"
  THEN [outcome |-> "resolved", result |-> "object"]
  ELSE IF api = "chat" /\ raw = "toolCalls"
  THEN [outcome |-> "resolved", result |-> "toolCalls"]
  ELSE [outcome |-> "resolved", result |-> "text"]

\* The awaited native call returns and the rest of the entry point runs: the
\* `finally` of chat() clears the tool callback; chatCompletions writes its
\* answer (on its streaming branch: the result as a single chunk and [DONE]).
JsResolve ==
  /\ req.id > 0
  /\ ~js.stream
  /\ nat.phase = "done"
  /\ cons.outcome = "none"
  /\ LET r == Settled(js.api, nat.schemaJson, nat.result) IN
     /\ cons' = [cons EXCEPT !.outcome = r.outcome, !.result = r.result]
     /\ http' =
          IF req.entry # "chatCompletions" THEN http
          ELSE IF req.stream
          THEN [http EXCEPT !.ended = TRUE,
                  !.out = IF r.outcome = "resolved"
                          THEN <<"data", "[DONE]">> ELSE <<"error">>]
          ELSE [http EXCEPT !.ended = TRUE,
                  !.status = IF r.outcome = "resolved" THEN 200 ELSE 500]
  /\ toolCallback' = IF js.api = "chat" /\ js.toolMapSize > 0
                     THEN FALSE ELSE toolCallback
  /\ UNCHANGED <<concVars, builderVars, extVars, bridge, invs, req, js, nat, coord, collector, chan, strm, hist>>

\* ------------------------------------------- JS: the tool-call bridge
\* The callbacks the apple-ai.ts functions hand to setToolCallback. An
\* invocation is (err, id, argsJson); argsOk says whether JSON.parse accepts
\* argsJson. Each record keeps what the callback did for the invocation
\* (`threw`: its tool handler threw or rejected) and what JSProxyTool.call
\* did after calling it (`appended`: a record in ToolCallCollector; `output`:
\* the ToolOutput the runtime got).
BridgeVariants ==
  {"chat", "streamChatForVercelAISDK", "chatWithEphemeralTools",
   "streamChatWithEphemeralTools", "streamChatWithExternalTools"}

HandlerVariants ==
  {"chat", "chatWithEphemeralTools", "streamChatWithEphemeralTools"}

Invocation(err, id, argsOk) ==
  [err |-> err, id |-> id, argsOk |-> argsOk, stage |-> "called",
   result |-> "none", handlerRan |-> FALSE, collected |-> FALSE,
   pending |-> FALSE, threw |-> FALSE, appended |-> FALSE, output |-> "none"]

\* JSProxyTool.call after cb(toolID, json): the call is appended to the
\* collector and the placeholder output returned to the runtime.
JSProxyToolCall(v) ==
  [v EXCEPT !.appended = TRUE, !.output = "Tool call executed"]

\* Faulty variant of the lookup: the bound of the id range is off by one
ToolLookupOffByOne(id, n) == id \in 1..(n + 1)

\* toolMap.get(id) / options.tools[id - 1]: the ids of n tools are 1..n
ToolLookup(id, n) == id \in 1..n

\* toolBindings.toolResult(id, r), after which the callback returns
toolResult(v, r) == [v EXCEPT !.stage = "returned", !.result = r]

\* The callback of chat(), up to its first await.
chatToolCallback(v, n) ==
  IF v.err THEN toolResult(v, "{}")
  ELSE IF ~ToolLookup(v.id, n) THEN toolResult(v, "{}")
  ELSE IF ~v.argsOk THEN toolResult(v, "{}")
  ELSE [v EXCEPT !.stage = "awaiting", !.handlerRan = TRUE]

\* The callback of chatWithEphemeralTools, up to its first await.
chatWithEphemeralToolsCallback(v, n) ==
  IF v.err THEN [v EXCEPT !.stage = "returned"]
  ELSE IF ~ToolLookup(v.id, n) THEN toolResult(v, "{}")
  ELSE IF ~v.argsOk THEN toolResult(v, "{}")
  ELSE [v EXCEPT !.stage = "awaiting", !.handlerRan = TRUE]

\* The callback of streamChatWithEphemeralTools, up to its first await.
streamChatWithEphemeralToolsCallback(v, n) ==
  IF v.err THEN [v EXCEPT !.stage = "returned"]
  ELSE IF ~ToolLookup(v.id, n) THEN toolResult(v, "{}")
  ELSE IF ~v.argsOk THEN toolResult(v, "{}")
  ELSE [v EXCEPT !.stage = "awaiting", !.handlerRan = TRUE]

\* The callback of streamChatForVercelAISDK: the call is collected and a
\* placeholder result delivered.
streamChatForVercelAISDKCallback(v, n) ==
  IF v.err THEN toolResult(v, "{}")
  ELSE IF ~ToolLookup(v.id, n) THEN toolResult(v, "{}")
  ELSE IF ~v.argsOk THEN toolResult(v, "{}")
  ELSE toolResult([v EXCEPT !.collected = TRUE], "{}")

\* The callback of streamChatWithExternalTools, up to its await: a pending
\* tool call is created and the tool-call event pushed.
streamChatWithExternalToolsCallback(v, n) ==
  IF v.err THEN toolResult(v, "{}")
  ELSE IF ~ToolLookup(v.id, n) THEN toolResult(v, "{}")
  ELSE IF ~v.argsOk THEN toolResult(v, "error")
  ELSE [v EXCEPT !.stage = "awaiting", !.pending = TRUE]

ToolCallback(variant, v, n) ==
  CASE variant = "chat" -> chatToolCallback(v, n)
    [] variant = "chatWithEphemeralTools" -> chatWithEphemeralToolsCallback(v, n)
    [] variant = "streamChatWithEphemeralTools" ->
         streamChatWithEphemeralToolsCallback(v, n)
    [] variant = "streamChatForVercelAISDK" ->
         streamChatForVercelAISDKCallback(v, n)
    [] OTHER -> streamChatWithExternalToolsCallback(v, n)

\* Whether the function registers its callback: chat() and
\* chatWithEphemeralTools only with at least one tool.
Registers(variant, n) ==
  variant \in {"chat", "chatWithEphemeralTools"} => n > 0

\* Whether the call streams: chat and chatWithEphemeralTools take a stream
\* option, the other three functions always stream.
BridgeStreams(variant, stream) ==
  IF variant \in {"chat", "chatWithEphemeralTools"} THEN stream ELSE TRUE

\* clearToolCallback calls made as the function returns: the streaming branch
\* of chatWithEphemeralTools returns its promise from inside `try` without
\* awaiting it, so its `finally` runs before the generation has produced
\* anything.
ClearsOnReturn(variant, stream) ==
  variant = "chatWithEphemeralTools" /\ stream

\* clearToolCallback when the generation ends (terminal streaming callback, or
\* the `finally` after the awaited native call).
ClearsAtEnd(variant, n, stream) ==
  CASE variant = "chat" -> n > 0
    [] variant = "chatWithEphemeralTools" -> ~stream
    [] OTHER -> TRUE

\* A request with n tools starts in one of the functions: setToolCallback, the
\* native generation is started and the function returns.
BridgeStart ==
  /\ bridge.gen # "running"
  /\ \E variant \in BridgeVariants, n \in 0..MaxTools, stream \in BOOLEAN :
       /\ stream = BridgeStreams(variant, stream)
       /\ bridge' = [variant |-> variant, n |-> n, stream |-> stream,
                     registered |-> Registers(variant, n),
                     armed |-> Registers(variant, n) /\ ~ClearsOnReturn(variant, stream),
                     gen |-> "running",
                     clears |-> IF ClearsOnReturn(variant, stream) THEN 1 ELSE 0,
                     destroyed |-> FALSE]
  /\ invs' = <<>>
  /\ UNCHANGED <<mainVars, concVars, builderVars, extVars>>

\* The runtime invokes the registered callback, which runs to its first await
\* or to its return.
BridgeInvoke ==
  /\ bridge.armed
  /\ bridge.gen = "running"
  /\ Len(invs) < MaxToolCalls
  /\ \E err \in BOOLEAN, id \in 1..(MaxTools + 1), argsOk \in BOOLEAN :
       /\ err => argsOk
       /\ invs' = Append(invs,
                         JSProxyToolCall(
                           ToolCallback(bridge.variant,
                                        Invocation(err, id, argsOk), bridge.n)))
  /\ UNCHANGED <<bridge, mainVars, concVars, builderVars, extVars>>

\* Faulty variant: the callback has no catch around the handler
HandlerResultUncaught(throws) == IF throws THEN "none" ELSE "value"

\* try { toolResult(id, JSON.stringify(await handler(...))) }
\* catch { toolResult(id, "{}") }
HandlerResult(throws) == IF throws THEN "{}" ELSE "value"

\* The promise of a tool handler settles and the callback resumes:
\* toolResult with the handler's value, or "{}" from the catch.
HandlerSettle ==
  /\ bridge.variant \in HandlerVariants
  /\ \E i \in 1..Len(invs), throws \in BOOLEAN :
       /\ invs[i].stage = "awaiting"
       /\ invs' = [invs EXCEPT ![i] = toolResult([@ EXCEPT !.threw = throws],
                                                 HandlerResult(throws))]
  /\ UNCHANGED <<bridge, mainVars, concVars, builderVars, extVars>>

\* injectToolResult for a pending tool call of streamChatWithExternalTools:
\* the entry is resolved and deleted, the callback resumes with toolResult.
injectToolResult ==
  /\ bridge.variant = "streamChatWithExternalTools"
  /\ \E i \in 1..Len(invs) :
       /\ invs[i].pending
       /\ invs' = [invs EXCEPT ![i] = toolResult([@ EXCEPT !.pending = FALSE], "value")]
  /\ UNCHANGED <<bridge, mainVars, concVars, builderVars, extVars>>

\* The consumer of a stream aborts: return() on the iterator of the Readable
\* destroys the stream, which forwards nothing from then on. Nothing in the
\* functions listens for it.
ConsumerReturn ==
  /\ bridge.gen = "running"
  /\ bridge.stream
  /\ bridge.variant # "chatWithEphemeralTools"
  /\ ~bridge.destroyed
  /\ bridge' = [bridge EXCEPT !.destroyed = TRUE]
  /\ UNCHANGED <<invs, mainVars, concVars, builderVars, extVars>>

\* The generation of the request ends, by completion or by an error: the
\* terminal streaming callback runs, or the awaited native call returns.
BridgeEnd ==
  /\ bridge.gen = "running"
  /\ LET clear == ClearsAtEnd(bridge.variant, bridge.n, bridge.stream) IN
     bridge' = [bridge EXCEPT !.gen = "done",
                  !.armed = IF clear THEN FALSE ELSE @,
                  !.clears = IF clear THEN @ + 1 ELSE @]
  /\ UNCHANGED <<invs, mainVars, concVars, builderVars, extVars>>

\* ------------------------------------- two requests in flight at once
\* ToolCallCollector.append: the record goes to the end of the shared list.
CollectorAppend(calls, r) == Append(calls, r)

\* chat() with n >= 1 tools: setToolCallback replaces whatever the slot held,
\* then the native generation is started.
ConcStart(r) ==
  /\ reqs[r].phase = "idle"
  /\ \E stream \in BOOLEAN, stop \in BOOLEAN, n \in 1..MaxTools :
       /\ ~stream => stop
       /\ reqs' = [reqs EXCEPT ![r] = [ReqIdle EXCEPT !.phase = "start",
                                         !.stream = stream, !.stop = stop, !.n = n]]
  /\ slot' = r
  /\ UNCHANGED <<sharedCoord, own, sharedCalls, mainVars, bridgeVars, builderVars, extVars>>

\* handleToolsMode up to the session: the shared collector is reset, and a
\* stream resets the shared coordinator.
ConcPrepare(r) ==
  /\ reqs[r].phase = "start"
  /\ reqs' = [reqs EXCEPT ![r].phase = "session"]
  /\ sharedCalls' = <<>>
  /\ IF reqs[r].stream
     THEN /\ sharedCoord' = reset(sharedCoord, reqs[r].n, reqs[r].stop)
          /\ own' = [own EXCEPT ![r] = [stop |-> reqs[r].stop, sinceReset |-> 0]]
     ELSE UNCHANGED <<sharedCoord, own>>
  /\ UNCHANGED <<slot, mainVars, bridgeVars, builderVars, extVars>>

\* JSProxyTool.call in the session of request r: the callback in the slot is
\* called, whichever request registered it, a record is appended to the
\* shared collector and the shared coordinator told.
ConcToolCall(r) ==
  /\ reqs[r].phase = "session"
  /\ reqs[r].calls < MaxToolCalls
  /\ IF slot # 0
     THEN /\ reqs' = [reqs EXCEPT ![r].calls = @ + 1,
                                  ![r].handledBy = @ \cup {slot}]
          /\ sharedCalls' = CollectorAppend(sharedCalls, r)
          /\ sharedCoord' = toolCompleted(sharedCoord)
          /\ own' = [own EXCEPT ![r].sinceReset = @ + 1]
     ELSE /\ reqs' = [reqs EXCEPT ![r].calls = @ + 1, ![r].unhandled = TRUE]
          /\ UNCHANGED <<sharedCoord, own, sharedCalls>>
  /\ UNCHANGED <<slot, mainVars, bridgeVars, builderVars, extVars>>

\* The stream of request r gets a snapshot: the termination check of the loop
\* of handleToolsMode reads the shared coordinator.
ConcYield(r) ==
  /\ reqs[r].phase = "session"
  /\ reqs[r].stream
  /\ handleToolsModeStreamStep(sharedCoord, reqs[r].stop, <<>>, <<>>).brk
  /\ reqs' = [reqs EXCEPT ![r].phase = "ending", ![r].early = TRUE]
  /\ UNCHANGED <<slot, sharedCoord, own, sharedCalls, mainVars, bridgeVars, builderVars, extVars>>

\* The runtime's sequence of request r ends, or session.respond returns and
\* the result is made of all the records the shared collector holds.
ConcFinish(r) ==
  /\ reqs[r].phase = "session"
  /\ reqs' = [reqs EXCEPT ![r].phase = "ending",
                ![r].got = IF reqs[r].stream THEN <<>> ELSE sharedCalls]
  /\ UNCHANGED <<slot, sharedCoord, own, sharedCalls, mainVars, bridgeVars, builderVars, extVars>>

\* chat() of request r sees the end of its generation: clearToolCallback.
ConcClear(r) ==
  /\ reqs[r].phase = "ending"
  /\ reqs' = [reqs EXCEPT ![r].phase = "done"]
  /\ slot' = 0
  /\ UNCHANGED <<sharedCoord, own, sharedCalls, mainVars, bridgeVars, builderVars, extVars>>

\* ------------------------------------------ native: the transcript builder
\* message.content of a message that has none
NoContent == "nil"

Roles == {"system", "user", "assistant", "tool", "Tool", "developer"}

\* role.lowercased()
lowercased(role) == IF role = "Tool" THEN "tool" ELSE role

\* The tool_calls arrays a tool message can carry: records with an id, a
\* toolName and segments, at most two of them.
ToolIds == 1 .. MaxToolIds

RecordLists ==
  {<<>>} \cup {<<[id |-> i]>> : i \in ToolIds}
         \cup {<<[id |-> i], [id |-> j]>> : i, j \in ToolIds}

\* An entry of message.tool_calls. `id` is call["id"] (0: there is none),
\* `name` is call["function"]["name"] (NoName: there is no function, or it
\* has no name).
NoName == "nil"

OpenAIToolCall == [id : {0, 1}, name : {"f", NoName}] \ {[id |-> 0, name |-> NoName]}

\* The tool_calls arrays of the assistant messages: one call, or a call with
\* id and name followed by a second one.
ToolCallLists ==
  {<<c>> : c \in OpenAIToolCall}
    \cup {<<[id |-> 1, name |-> "f"], c>> : c \in OpenAIToolCall}

\* A content that is the JSON text of an array of tool calls (the older way
\* of passing the calls of an assistant message), and the summary
\* createAssistantEntry makes of it: name(key=value, ...) of every call.
LegacyContent == "[{\"function\":{\"name\":\"f\"}}]"

toolCallsSummary(content) == IF content = LegacyContent THEN "f()" ELSE ""

\* The messages of a request. The content of a message is absent, or one of
\* two texts; the content of a tool message is a text that is no JSON object
\* ("p"), or the JSON object whose tool_calls array is `records`. An
\* assistant message may carry tool calls, in tool_calls or in its content.
ChatMessage ==
  [role : {"system", "user", "assistant", "developer"},
   content : {NoContent, "p", "q"}, records : {<<>>}, tool_calls : {<<>>}]
  \cup [role : {"assistant"}, content : {LegacyContent}, records : {<<>>},
         tool_calls : {<<>>}]
  \cup [role : {"assistant"}, content : {"p"}, records : {<<>>},
         tool_calls : ToolCallLists]
  \cup [role : {"tool", "Tool"}, content : {"p"}, records : {<<>>},
         tool_calls : {<<>>}]
  \cup [role : {"tool", "Tool"}, content : {"json"}, records : RecordLists,
         tool_calls : {<<>>}]

\* message.content ?? ""
ContentOrEmpty(message) ==
  IF message.content = NoContent THEN "" ELSE message.content

\* Every entry carries in `msg` the index of the message it was made from.
createPrompt(message, k) ==
  [kind |-> "prompt", msg |-> k, text |-> ContentOrEmpty(message)]

createResponse(message, k) ==
  [kind |-> "response", msg |-> k, text |-> ContentOrEmpty(message)]

\* The check both branches of createAssistantEntry make of every call:
\* call["function"] is an object and has a name.
HasFunctionName(call) == call.name # NoName

\* compactMap: the calls without an id or a name are left out.
convertOpenAIToolCalls(toolCalls) ==
  SelectSeq(toolCalls, LAMBDA call : call.id # 0 /\ call.name # NoName)

createAssistantEntry(message, k) ==
  IF /\ message.tool_calls # <<>>
     /\ \A j \in 1 .. Len(message.tool_calls) :
          HasFunctionName(message.tool_calls[j])
  THEN [kind |-> "toolCalls", msg |-> k,
        calls |-> convertOpenAIToolCalls(message.tool_calls)]
  ELSE IF message.content = LegacyContent
  THEN [kind |-> "response", msg |-> k,
        text |-> toolCallsSummary(message.content)]
  ELSE createResponse(message, k)

createToolOutputEntry(message, k) ==
  IF message.role # "tool" THEN <<>>
  ELSE IF message.content # "json" THEN <<>>
  ELSE [j \in 1 .. Len(message.records) |->
          [kind |-> "toolOutput", msg |-> k, id |-> message.records[j].id]]

\* The filter of the tool entries: an entry whose id was seen is dropped, the
\* id of an entry that is kept is inserted.
RECURSIVE FilterSeen(_, _)
FilterSeen(toolEntries, seen) ==
  IF toolEntries = <<>> THEN [kept |-> <<>>, seen |-> seen]
  ELSE LET e == Head(toolEntries)
           rest == FilterSeen(Tail(toolEntries), seen \cup {e.id})
       IN IF e.id \in seen THEN FilterSeen(Tail(toolEntries), seen)
          ELSE [kept |-> <<e>> \o rest.kept, seen |-> rest.seen]

\* The loop of convertMessagesToTranscript from message k on; the system
\* messages are filtered out before it.
RECURSIVE ConvertFrom(_, _, _)
ConvertFrom(messages, k, seenToolOutputIDs) ==
  IF k > Len(messages) THEN <<>>
  ELSE LET message == messages[k]
           role == lowercased(message.role)
           f == FilterSeen(createToolOutputEntry(message, k), seenToolOutputIDs)
       IN CASE role = "system" ->
                 ConvertFrom(messages, k + 1, seenToolOutputIDs)
            [] role = "user" ->
                 <<createPrompt(message, k)>>
                   \o ConvertFrom(messages, k + 1, seenToolOutputIDs)
            [] role = "assistant" ->
                 <<createAssistantEntry(message, k)>>
                   \o ConvertFrom(messages, k + 1, seenToolOutputIDs)
            [] role = "tool" ->
                 f.kept \o ConvertFrom(messages, k + 1, f.seen)
            [] OTHER ->
                 <<createPrompt(message, k)>>
                   \o ConvertFrom(messages, k + 1, seenToolOutputIDs)

convertMessagesToTranscript(messages) == ConvertFrom(messages, 1, {})

\* Faulty variant: the trailing user message stays in previousMessages
prepareKeepingLast(messages) ==
  IF messages = <<>>
  THEN [state |-> "noMessages", currentPrompt |-> "", transcriptEntries |-> <<>>]
  ELSE LET lastMessage == messages[Len(messages)]
       IN [state |-> "built",
           currentPrompt |-> IF lowercased(lastMessage.role) = "user"
                             THEN ContentOrEmpty(lastMessage) ELSE "",
           transcriptEntries |-> convertMessagesToTranscript(messages)]

prepareConversationContext(messages) ==
  IF messages = <<>>
  THEN [state |-> "noMessages", currentPrompt |-> "", transcriptEntries |-> <<>>]
  ELSE LET lastMessage == messages[Len(messages)]
           isUser == lowercased(lastMessage.role) = "user"
           previousMessages ==
             IF isUser THEN SubSeq(messages, 1, Len(messages) - 1)
             ELSE messages
       IN [state |-> "built",
           currentPrompt |-> IF isUser THEN ContentOrEmpty(lastMessage) ELSE "",
           transcriptEntries |-> convertMessagesToTranscript(previousMessages)]

\* handleToolsMode: the first system message that has a content, 0 if none
RECURSIVE FirstSystem(_, _)
FirstSystem(messages, k) ==
  IF k > Len(messages) THEN 0
  ELSE IF /\ lowercased(messages[k].role) = "system"
          /\ messages[k].content # NoContent
       THEN k
       ELSE FirstSystem(messages, k + 1)

\* The entries of the transcript the session of each mode is opened with
\* (`tools` is the number of tool definitions of a TOOLS request). The
\* instructions entry has one text segment, or none without a system content.
SessionTranscript(mode, messages, context, tools) ==
  IF mode # "TOOLS" THEN context.transcriptEntries
  ELSE LET s == FirstSystem(messages, 1)
           systemContent == IF s = 0 THEN "" ELSE messages[s].content
           textSegment == IF systemContent = "" THEN <<>> ELSE <<systemContent>>
       IN IF tools > 0 \/ systemContent # ""
          THEN <<[kind |-> "instructions", msg |-> s, segments |-> textSegment,
                  tools |-> tools]>> \o context.transcriptEntries
          ELSE context.transcriptEntries

\* The caller adds a message to the list of its request.
AddMessage ==
  /\ ctx.state = "none"
  /\ Len(input) < MaxMessages
  /\ \E m \in ChatMessage : input' = Append(input, m)
  /\ UNCHANGED <<ctx, sess, mainVars, bridgeVars, concVars, extVars>>

\* The dispatcher builds the context of the request.
BuildContext ==
  /\ ctx.state = "none"
  /\ ctx' = prepareConversationContext(input)
  /\ UNCHANGED <<input, sess, mainVars, bridgeVars, concVars, extVars>>

\* The handler of the request's mode opens its session.
OpenSession ==
  /\ ctx.state = "built"
  /\ sess.mode = "none"
  /\ \E mode \in {"BASIC", "STRUCTURED", "TOOLS"} :
       \E tools \in 0 .. MaxTools :
         /\ mode # "TOOLS" => tools = 0
         /\ sess' = [mode |-> mode, tools |-> tools,
                     entries |-> SessionTranscript(mode, input, ctx, tools)]
  /\ UNCHANGED <<input, ctx, mainVars, bridgeVars, concVars, extVars>>

\* ------------------------------------------- HTTP server: authentication
\* Header values, tokens and URLs are sequences of characters.
Bearer == <<"B", "e", "a", "r", "e", "r", " ">>

\* String.prototype.startsWith and String.prototype.substring(from)
startsWith(s, prefix) ==
  Len(s) >= Len(prefix) /\ SubSeq(s, 1, Len(prefix)) = prefix

substring(s, from) == IF from >= Len(s) THEN <<>> ELSE SubSeq(s, from + 1, Len(s))

\* options.bearerToken: NoToken is an option left out (or the empty string,
\* which is as falsy).
NoToken == <<>>

Tokens == {NoToken, <<"k", "1">>, <<"k", "2">>}

\* event.node.req.headers.authorization: absent, or a value.
NoHeader == [present |-> FALSE, value |-> <<>>]

HeaderValues ==
  {Bearer \o <<"k", "1">>, Bearer \o <<"k", "2">>, Bearer,
   Bearer \o <<"k", "1", " ">>, <<"b", "e", "a", "r", "e", "r", " ", "k", "1">>,
   <<"k", "1">>, <<>>}

AuthHeaders == {NoHeader} \cup {[present |-> TRUE, value |-> v] : v \in HeaderValues}

\* The routes of setupRoutes, in the order they are mounted.
HealthPath == <<"/", "h", "e", "a", "l", "t", "h">>

ModelsPath == <<"/", "v", "1", "/", "m", "o", "d", "e", "l", "s">>

ChatPath ==
  <<"/", "v", "1", "/", "c", "h", "a", "t", "/", "c", "o", "m", "p", "l", "e",
    "t", "i", "o", "n", "s">>

TagsPath == <<"/", "v", "1", "/", "a", "p", "i", "/", "t", "a", "g", "s">>

ShowPath == <<"/", "v", "1", "/", "a", "p", "i", "/", "s", "h", "o", "w">>

Routes ==
  <<[route |-> ModelsPath, handler |-> "models"],
    [route |-> ChatPath, handler |-> "chatCompletions"],
    [route |-> HealthPath, handler |-> "health"],
    [route |-> TagsPath, handler |-> "apiTags"],
    [route |-> ShowPath, handler |-> "apiShow"]>>

\* req.url is the request target: the path and, after "?", the query.
Urls ==
  {HealthPath, HealthPath \o <<"?", "p">>, ModelsPath, ChatPath,
   ChatPath \o <<"?", "p">>, <<"/">>}

\* app.use(route, handler): the first mounted layer whose route the request
\* target starts with serves the request; the last layer answers 404.
RouteOf(url) ==
  LET hits == {i \in 1..Len(Routes) : startsWith(url, Routes[i].route)} IN
  IF hits = {} THEN "notFound"
  ELSE Routes[CHOOSE i \in hits : \A j \in hits : i <= j].handler

ResInit == [status |-> 200, ended |-> FALSE, error |-> "none", handler |-> "none"]

\* The handler createAuthMiddleware(bearerToken) returns, run on a request:
\* the response it leaves.
createAuthMiddleware(bearerToken, url, authorization, res) ==
  IF bearerToken = NoToken THEN res
  ELSE IF url = HealthPath THEN res
  ELSE IF ~authorization.present \/ authorization.value = <<>>
          \/ ~startsWith(authorization.value, Bearer)
  THEN [res EXCEPT !.status = 401, !.ended = TRUE, !.error = "Unauthorized"]
  ELSE IF substring(authorization.value, 7) # bearerToken
  THEN [res EXCEPT !.status = 401, !.ended = TRUE, !.error = "Invalid token"]
  ELSE res

\* startServer: the options of the server are fixed.
startServer ==
  /\ server.state = "down"
  /\ \E t \in Tokens : server' = [state |-> "up", bearerToken |-> t]
  /\ UNCHANGED <<hreq, hres, compileVars, vercelVars, mainVars, bridgeVars, concVars, builderVars, selVars>>

\* A request arrives.
HttpReceive ==
  /\ server.state = "up"
  /\ hreq.stage \in {"none", "done"}
  /\ \E url \in Urls, authorization \in AuthHeaders :
       hreq' = [url |-> url, authorization |-> authorization, stage |-> "auth"]
  /\ hres' = ResInit
  /\ UNCHANGED <<server, compileVars, vercelVars, mainVars, bridgeVars, concVars, builderVars, selVars>>

\* The first layer of the app: the authentication middleware, mounted only
\* when a token is configured.
AuthLayer ==
  /\ hreq.stage = "auth"
  /\ hres' = createAuthMiddleware(server.bearerToken, hreq.url,
                                  hreq.authorization, hres)
  /\ hreq' = [hreq EXCEPT !.stage = "route"]
  /\ UNCHANGED <<server, compileVars, vercelVars, mainVars, bridgeVars, concVars, builderVars, selVars>>

\* The layers after it: none runs on a response that is already ended;
\* otherwise the route handler of the request answers, or the 404 layer.
RouteLayer ==
  /\ hreq.stage = "route"
  /\ hres' = IF hres.ended THEN hres
             ELSE [hres EXCEPT !.ended = TRUE, !.handler = RouteOf(hreq.url),
                     !.status = IF RouteOf(hreq.url) = "notFound" THEN 404 ELSE 200]
  /\ hreq' = [hreq EXCEPT !.stage = "done"]
  /\ UNCHANGED <<server, compileVars, vercelVars, mainVars, bridgeVars, concVars, builderVars, selVars>>

\* ------------------------------------------- native: the schema compiler
\* A JSON schema is one of: {"$ref": ...}; {"enum": [...]} with a list of
\* strings; {"type": t}; {"anyOf": [...]} with a list of schemas. The
\* compiled DynamicGenerationSchema is a reference, a string-choice type
\* ("choice", anyOf: [String]), a union ("union", anyOf:
\* [DynamicGenerationSchema]) or a plain type. Names and descriptions are
\* left out.
MaxAlternatives == 2

EnumValues == {<<>>, <<"a">>, <<"b">>, <<"a", "b">>}

LeafSchemas ==
  {[kind |-> "enum", values |-> v] : v \in EnumValues}
    \cup {[kind |-> "type", type |-> t] : t \in {"string", "number", "other"}}
    \cup {[kind |-> "ref"]}

AlternativeLists ==
  UNION {[1..n -> LeafSchemas] : n \in 0..MaxAlternatives}

JSONSchemas ==
  LeafSchemas \cup {[kind |-> "anyOf", alternatives |-> a] : a \in AlternativeLists}

\* `choice["enum"] as? [String], enums.count == 1`
IsSingleEnum(choice) == choice.kind = "enum" /\ Len(choice.values) = 1

\* The switch on dict["type"]: an unknown type falls back to String.
TypeOf(type) == IF type = "number" THEN "Double" ELSE "String"

RECURSIVE convertJSONSchemaToDynamic(_)
convertJSONSchemaToDynamic(dict) ==
  CASE dict.kind = "ref" -> [kind |-> "ref"]
    [] dict.kind = "anyOf" ->
         LET anyOf == dict.alternatives
             single == SelectSeq(anyOf, IsSingleEnum)
             other == SelectSeq(anyOf, LAMBDA c : ~IsSingleEnum(c))
             stringChoices == [i \in 1..Len(single) |-> single[i].values[1]]
             dynamicChoices ==
               [i \in 1..Len(other) |-> convertJSONSchemaToDynamic(other[i])]
         IN
         IF stringChoices # <<>> /\ dynamicChoices = <<>>
         THEN [kind |-> "choice", values |-> stringChoices]
         ELSE [kind |-> "union",
               choices |-> IF dynamicChoices = <<>>
                           THEN [i \in 1..Len(anyOf) |->
                                   convertJSONSchemaToDynamic(anyOf[i])]
                           ELSE dynamicChoices]
    [] dict.kind = "enum" -> [kind |-> "choice", values |-> dict.values]
    [] OTHER -> [kind |-> "type", type |-> TypeOf(dict.type)]

\* The caller passes a schema.
ChooseSchema ==
  /\ schemaIn = [kind |-> "none"]
  /\ \E s \in JSONSchemas : schemaIn' = s
  /\ UNCHANGED <<dynamic, authVars, vercelVars, mainVars, bridgeVars, concVars, builderVars, selVars>>

\* handleStructuredMode compiles it.
CompileSchema ==
  /\ schemaIn # [kind |-> "none"]
  /\ dynamic = [kind |-> "none"]
  /\ dynamic' = convertJSONSchemaToDynamic(schemaIn)
  /\ UNCHANGED <<schemaIn, authVars, vercelVars, mainVars, bridgeVars, concVars, builderVars, selVars>>

\* ------------------------------------------- JS: streamChatForVercelAISDK
\* The function with its Readable in object mode: `collected` is
\* collectedToolCalls (the tool ids), `events` what was pushed to the Readable
\* before push(null), `eofs` the number of push(null) calls, `ends` the
\* number of end signals (a null or an empty chunk) the streaming callback
\* was called with.
MaxEndSignals == 2

VercelIdle ==
  [phase |-> "idle", n |-> 0, registered |-> FALSE, collected |-> <<>>,
   events |-> <<>>, texts |-> 0, generationComplete |-> FALSE, eofs |-> 0,
   ends |-> 0, destroyed |-> FALSE]

TextEvent(k) == [type |-> "text", item |-> k]

ToolCallEvent(id) == [type |-> "tool-call", item |-> id]

\* Faulty variant: the tool calls are emitted at every end signal
finishWithToolCallsUnguarded(v) ==
  [v EXCEPT !.generationComplete = TRUE,
            !.events = @ \o [i \in 1..Len(v.collected) |-> ToolCallEvent(v.collected[i])],
            !.eofs = @ + 1, !.registered = FALSE]

\* finishWithToolCalls: once only, a tool-call event per collected call, then
\* push(null) and clearToolCallback.
finishWithToolCalls(v) ==
  IF v.generationComplete THEN v
  ELSE [v EXCEPT !.generationComplete = TRUE,
                 !.events = @ \o [i \in 1..Len(v.collected) |->
                                    ToolCallEvent(v.collected[i])],
                 !.eofs = @ + 1, !.registered = FALSE]

\* The function is called with n tools: setToolCallback, generateUnifiedStream.
VercelStart ==
  /\ vercel.phase = "idle"
  /\ \E n \in 0..MaxTools :
       vercel' = [VercelIdle EXCEPT !.phase = "running", !.n = n,
                                    !.registered = TRUE]
  /\ UNCHANGED <<authVars, compileVars, mainVars, bridgeVars, concVars, builderVars, selVars>>

\* The runtime invokes a tool and the tool callback runs: the call is
\* collected unless the callback got an error, an unknown id or arguments
\* that do not parse.
VercelToolCallback ==
  /\ vercel.phase = "running"
  /\ vercel.registered
  /\ Len(vercel.collected) < MaxToolCalls
  /\ \E err \in BOOLEAN, id \in 1..(MaxTools + 1), argsOk \in BOOLEAN :
       LET v == streamChatForVercelAISDKCallback(Invocation(err, id, argsOk),
                                                 vercel.n)
       IN
       /\ err => argsOk
       /\ vercel' = [vercel EXCEPT
                       !.collected = IF v.collected THEN Append(@, id) ELSE @]
  /\ UNCHANGED <<authVars, compileVars, mainVars, bridgeVars, concVars, builderVars, selVars>>

\* The streaming callback runs on a text chunk.
VercelOnText ==
  /\ vercel.phase = "running"
  /\ vercel.ends = 0
  /\ vercel.texts < MaxYields
  /\ vercel' = [vercel EXCEPT !.texts = @ + 1,
                              !.events = Append(@, TextEvent(vercel.texts + 1))]
  /\ UNCHANGED <<authVars, compileVars, mainVars, bridgeVars, concVars, builderVars, selVars>>

\* The streaming callback runs on an end signal: a null or an empty chunk.
VercelOnEnd ==
  /\ vercel.phase = "running"
  /\ vercel.ends < MaxEndSignals
  /\ vercel' = [finishWithToolCalls(vercel) EXCEPT !.ends = @ + 1]
  /\ UNCHANGED <<authVars, compileVars, mainVars, bridgeVars, concVars, builderVars, selVars>>

\* The streaming callback runs on an error: readable.destroy and
\* clearToolCallback.
VercelOnError ==
  /\ vercel.phase = "running"
  /\ vercel.ends = 0
  /\ vercel' = [vercel EXCEPT !.phase = "failed", !.destroyed = TRUE,
                              !.registered = FALSE]
  /\ UNCHANGED <<authVars, compileVars, mainVars, bridgeVars, concVars, builderVars, selVars>>

\* ------------------------------------------- JS: the mode an entry point asks for
\* The entry points that take tools and a schema (or JSON response format)
\* and reach the dispatcher through apple-ai.ts: generateResponse of the
\* Vercel provider (doGenerate), chatCompletions of part_002, and
\* chatCompletions of server/routes, which goes through the AI SDK
\* (generateObject and generateText call doGenerate, streamText calls
\* doStream).
ModeEntries == {"generateResponse", "chatCompletions", "routes/chatCompletions"}

\* generateResponse: handleStructuredGeneration when a JSON schema is asked
\* for, else handleRegularGeneration, with or without tools.
generateResponseCall(tools, schema) ==
  IF schema
  THEN [api |-> "chat", stream |-> FALSE, tools |-> NoTools, schema |-> TRUE,
        stop |-> TRUE]
  ELSE IF tools.given /\ tools.n > 0
  THEN [api |-> "chat", stream |-> FALSE, tools |-> tools, schema |-> FALSE,
        stop |-> TRUE]
  ELSE [api |-> "chat", stream |-> FALSE, tools |-> NoTools, schema |-> FALSE,
        stop |-> TRUE]

\* doStream: createToolEnabledStream with tools, else createRegularStream.
doStreamCall(tools) ==
  IF tools.given /\ tools.n > 0
  THEN [api |-> "streamChatForVercelAISDK", stream |-> TRUE, tools |-> tools,
        schema |-> FALSE, stop |-> TRUE]
  ELSE [api |-> "streamChatCompletion", stream |-> TRUE, tools |-> NoTools,
        schema |-> FALSE, stop |-> TRUE]

\* chatCompletions of server/routes: generateObject (which passes no tools)
\* for a json_schema response format, streaming or not; else streamText or
\* generateText with the tools.
routesChatCompletionsCall(stream, tools, schema) ==
  IF schema THEN generateResponseCall(NoTools, TRUE)
  ELSE IF stream THEN doStreamCall(tools)
  ELSE generateResponseCall(tools, FALSE)

EntryCall(entry, stream, tools, schema) ==
  CASE entry = "generateResponse" -> generateResponseCall(tools, schema)
    [] entry = "routes/chatCompletions" ->
         routesChatCompletionsCall(stream, tools, schema)
    [] OTHER -> InnerCall(entry, stream, tools, schema, TRUE)

\* The tools and schema arguments of the native call: streamChatForVercelAISDK
\* always passes its tool schemas and no schema.
EntryArgs(call) ==
  IF call.api = "streamChatForVercelAISDK"
  THEN [toolsJson |-> [present |-> TRUE, n |-> call.tools.n],
        schemaJson |-> FALSE, stream |-> TRUE, stop |-> TRUE]
  ELSE NativeArgs(call)

\* A request reaches one of the entry points.
AskEntry ==
  /\ sel.stage = "none"
  /\ \E entry \in ModeEntries, stream \in BOOLEAN, tools \in ToolsOpt,
        schema \in BOOLEAN :
       /\ entry = "generateResponse" => ~stream
       /\ sel' = [sel EXCEPT !.stage = "asked", !.entry = entry,
                                 !.stream = stream, !.tools = tools,
                                 !.schema = schema]
  /\ UNCHANGED <<authVars, compileVars, vercelVars, mainVars, bridgeVars, concVars, builderVars>>

\* The entry point makes its call into apple-ai.ts, which calls the native
\* layer.
EntryCalls ==
  /\ sel.stage = "asked"
  /\ sel' = [sel EXCEPT !.stage = "called",
               !.args = EntryArgs(EntryCall(sel.entry, sel.stream, sel.tools,
                                            sel.schema))]
  /\ UNCHANGED <<authVars, compileVars, vercelVars, mainVars, bridgeVars, concVars, builderVars>>

\* The dispatcher chooses the mode from the arguments it got.
DispatchMode ==
  /\ sel.stage = "called"
  /\ sel' = [sel EXCEPT !.stage = "dispatched",
               !.mode = NativeMode(sel.args.toolsJson, sel.args.schemaJson)]
  /\ UNCHANGED <<authVars, compileVars, vercelVars, mainVars, bridgeVars, concVars, builderVars>>

\* ------------------------------------------------------- specification
Next ==
  \/ StartRequest
  \/ NativePrepare
  \/ SessionToolCall
  \/ SessionYield
  \/ SessionEnd
  \/ SessionRespond
  \/ SessionThrow
  \/ JsOnChunk
  \/ ConsumerNext
  \/ JsResolve

Spec == Init /\ [][Next]_vars

\* The native task runs on, the runtime's sequence ends or fails, the JS event
\* loop runs the callbacks queued for it and the consumer drains its stream.
NativeStep ==
  \/ NativePrepare
  \/ SessionToolCall
  \/ SessionYield
  \/ SessionEnd
  \/ SessionRespond
  \/ SessionThrow

SpecLive ==
  /\ Init
  /\ [][Next]_vars
  /\ WF_vars(NativeStep)
  /\ WF_vars(JsOnChunk)
  /\ WF_vars(ConsumerNext)

IterNext ==
  \/ StartIterator
  \/ NativePrepare
  \/ SessionYield
  \/ SessionEnd
  \/ SessionThrow
  \/ JsOnChunk
  \/ ConsumerNext
  \/ IteratorReturn

SpecIter == Init /\ [][IterNext]_vars

BridgeNext ==
  \/ BridgeStart
  \/ BridgeInvoke
  \/ HandlerSettle
  \/ injectToolResult
  \/ ConsumerReturn
  \/ BridgeEnd

SpecBridge == Init /\ [][BridgeNext]_vars

ConcNext ==
  \E r \in TwoRequests :
    \/ ConcStart(r)
    \/ ConcPrepare(r)
    \/ ConcToolCall(r)
    \/ ConcYield(r)
    \/ ConcFinish(r)
    \/ ConcClear(r)

SpecConc == Init /\ [][ConcNext]_vars

BuilderNext ==
  \/ AddMessage
  \/ BuildContext
  \/ OpenSession

SpecBuilder == Init /\ [][BuilderNext]_vars

AuthNext ==
  \/ startServer
  \/ HttpReceive
  \/ AuthLayer
  \/ RouteLayer

SpecAuth == Init /\ [][AuthNext]_vars

CompileNext ==
  \/ ChooseSchema
  \/ CompileSchema

SpecCompile == Init /\ [][CompileNext]_vars

VercelNext ==
  \/ VercelStart
  \/ VercelToolCallback
  \/ VercelOnText
  \/ VercelOnEnd
  \/ VercelOnError

SpecVercel == Init /\ [][VercelNext]_vars

ModesNext ==
  \/ AskEntry
  \/ EntryCalls
  \/ DispatchMode

SpecModes == Init /\ [][ModesNext]_vars

\* ------------------------------------------------------------ properties
\* The text chunks among the onChunk calls of the generation, and the texts of
\* the chunks the consumer got (streamChatCompletion adds a final chunk of its
\* own making).
RECURSIVE EmittedTexts(_)
EmittedTexts(out) ==
  IF out = <<>> THEN <<>>
  ELSE IF Head(out).nil \/ Head(out).sentinel THEN EmittedTexts(Tail(out))
  ELSE <<Head(out).text>> \o EmittedTexts(Tail(out))

RECURSIVE ReceivedTexts(_)
ReceivedTexts(recv) ==
  IF recv = <<>> THEN <<>>
  ELSE IF Head(recv).final THEN ReceivedTexts(Tail(recv))
  ELSE <<Head(recv).text>> \o ReceivedTexts(Tail(recv))

FourVariants ==
  {"chat", "streamChatForVercelAISDK", "chatWithEphemeralTools",
   "streamChatWithEphemeralTools"}

\* C1: in chat, streamChatForVercelAISDK, chatWithEphemeralTools and
\* streamChatWithEphemeralTools, every invocation of the tool callback that
\* the callback has finished with has had toolResult called for it, whatever
\* the invocation carried (a callback error, an unknown id, undecodable
\* arguments, a handler that throws).
EveryInvocationGetsResult ==
  bridge.variant \in FourVariants =>
    \A i \in 1..Len(invs) :
      invs[i].stage = "returned" => invs[i].result # "none"

StreamOpen == req.id > 0 /\ js.stream /\ cons.outcome = "none"

StreamClosed == js.stream /\ cons.outcome \in {"end", "error"}

EveryStreamTerminates == StreamOpen ~> StreamClosed

SecondStreamTerminated ==
  /\ req.id = MaxRequests
  /\ req.id > 1
  /\ StreamClosed
  /\ nat.mode = "TOOLS"
  /\ nat.early

\* C4: when the native layer reports a failure on a stream of
\* streamChatCompletion or streamResponse, the consumer gets the chunks
\* emitted before it and then an error, never a normal end.
FailedStreamEndsInError ==
  (/\ js.api \in {"streamChatCompletion", "streamResponse"}
   /\ nat.failed
   /\ cons.outcome # "none") =>
    /\ cons.outcome = "error"
    /\ ReceivedTexts(cons.recv) = EmittedTexts(nat.out)

\* C5: while the coordinator was last reset with stopAfterToolCalls = true and
\* a tool completion has been notified since, every step other than a reset
\* leaves the termination check true.
ResetStep == hist'.sinceReset = 0

TerminationStaysTrue ==
  [][(hist.stopAtReset /\ hist.sinceReset >= 1 /\ ~ResetStep)
       => shouldTerminateStream(coord')]_vars

TerminationAfterSecondCompletion ==
  /\ nat.mode = "TOOLS"
  /\ nat.streaming
  /\ nat.stop
  /\ hist.sinceReset = 2
  /\ shouldTerminateStream(coord)

\* C6: the termination check is true exactly when the last reset was made with
\* stopAfterToolCalls = true and at least one tool has completed since; the
\* expected count plays no part.
TerminationIffStopAndCompleted ==
  shouldTerminateStream(coord) <=> (hist.stopAtReset /\ hist.sinceReset >= 1)

OneOfSeveralExpectedCompleted ==
  /\ coord.expectedToolCount > 1
  /\ hist.sinceReset = 1
  /\ shouldTerminateStream(coord)

\* C7: in a TOOLS_MODE stream, a cumulative text that arrives when the
\* termination condition holds ends the loop at once: no text chunk is emitted
\* for it, only the completion signal, and nothing is emitted afterwards.
ToolsStreamRunning ==
  nat.phase = "session" /\ nat.mode = "TOOLS" /\ nat.streaming

NoDeltaOnceTerminating ==
  [][/\ (ToolsStreamRunning /\ hist.stopAtReset /\ hist.sinceReset >= 1
         /\ nat'.yields = nat.yields + 1)
          => (nat'.phase = "done" /\ nat'.out = nat.out \o <<NilRaw>>)
     /\ (nat.early /\ nat'.early) => nat'.out = nat.out]_vars

LeftLoopAfterAChunk ==
  /\ nat.early
  /\ nat.yields = 2
  /\ Len(EmittedTexts(nat.out)) = 1
  /\ nat.last # nat.prev

\* C8: a request with tools and a schema is dispatched in TOOLS mode, never in
\* STRUCTURED mode, streaming or not.
BothGiven == req.tools.given /\ req.tools.n > 0 /\ req.schema

ToolsWinOverSchema ==
  (BothGiven /\ nat.mode # "none") => nat.mode = "TOOLS"

ToolsAndSchemaInToolsMode ==
  /\ BothGiven
  /\ req.entry = "chat"
  /\ ~req.stream
  /\ nat.mode = "TOOLS"
  /\ cons.outcome = "resolved"

\* C9: a request with a schema and no tools, the tools omitted or an empty
\* list, is dispatched in STRUCTURED mode.
SchemaWithoutToolsIsStructured ==
  (/\ req.schema
   /\ ~(req.tools.given /\ req.tools.n > 0)
   /\ nat.mode # "none") => nat.mode = "STRUCTURED"

\* C10: a streaming request with a schema and no tools ends with an error
\* reported to its caller, without a text chunk and without a normal end.
ReportedError ==
  IF req.entry = "chatCompletions"
  THEN http.out = <<"error">>
  ELSE cons.outcome = "error" /\ cons.recv = <<>>

StructuredStreamIsAnError ==
  (/\ req.stream
   /\ req.schema
   /\ ~req.tools.given
   /\ cons.outcome # "none") => ReportedError

\* C11: a request that registered a tool callback has it unregistered exactly
\* once, when its generation has ended: while the generation runs the callback
\* is registered and clearToolCallback has not been called, afterwards it has
\* been called once.
CallbackClearedOnceAtEnd ==
  bridge.registered =>
    /\ bridge.gen = "running" => (bridge.armed /\ bridge.clears = 0)
    /\ bridge.gen = "done" => (~bridge.armed /\ bridge.clears = 1)

\* C12: once a streamChatWithExternalTools request has ended, none of its tool
\* calls is still pending and each has had its result delivered.
NoPendingAfterEnd ==
  (bridge.variant = "streamChatWithExternalTools" /\ bridge.gen = "done") =>
    \A i \in 1..Len(invs) :
      ~invs[i].pending /\ invs[i].stage = "returned"

\* C13: once a streaming request has been aborted (nothing is forwarded any
\* more), its tool callback is unregistered and none of its tool calls is
\* pending: the three never hold one without the others.
AbortIsAtomic ==
  bridge.destroyed =>
    /\ ~bridge.armed
    /\ \A i \in 1..Len(invs) : ~invs[i].pending

\* C14: with two requests with tools in flight, every tool invocation the
\* runtime makes for a request is handled by the callback that request
\* registered, and by no other.
OwnBridgeHandlesInvocation ==
  \A r \in TwoRequests :
    /\ reqs[r].handledBy \subseteq {r}
    /\ ~reqs[r].unhandled

\* C15: what the termination check of a running stream reads is decided by
\* that stream's own reset and its own tool completions alone.
OwnEventsDecideTermination ==
  \A r \in TwoRequests :
    (reqs[r].phase = "session" /\ reqs[r].stream) =>
      (shouldTerminateStream(sharedCoord)
         <=> (own[r].stop /\ own[r].sinceReset >= 1))

\* C16: in a stream of streamChatCompletion or streamResponse, the chunks the
\* consumer has got, followed by those buffered for it and those whose
\* callback has not run yet, are at every moment the chunks the native side
\* produced, in their order: nothing is dropped, repeated or reordered.
HandWritten == js.api \in {"streamChatCompletion", "streamResponse"}

ChunksInGenerationOrder ==
  HandWritten =>
    ReceivedTexts(cons.recv \o strm.queue) \o EmittedTexts(chan)
      = EmittedTexts(nat.out)

BufferedThenDrained ==
  /\ js.api = "streamResponse"
  /\ cons.outcome = "end"
  /\ strm.queue = <<>>
  /\ ReceivedTexts(cons.recv) = <<(<<1>>), (<<2>>)>>

\* The entries of a transcript that were made from message k.
EntriesOf(entries, k) == {j \in 1 .. Len(entries) : entries[j].msg = k}

LastIsUser == input # <<>> /\ lowercased(input[Len(input)].role) = "user"

\* C17: when the last message of a non-empty list is a user message, the
\* prompt of the built context is the content of that message, and no entry
\* of the context's transcript, nor of the transcript a session is opened
\* with, was made from that message.
UserLastBecomesPrompt ==
  (ctx.state = "built" /\ LastIsUser) =>
    /\ ctx.currentPrompt = ContentOrEmpty(input[Len(input)])
    /\ EntriesOf(ctx.transcriptEntries, Len(input)) = {}
    /\ EntriesOf(sess.entries, Len(input)) = {}

UserAfterUserBuilt ==
  /\ ctx.state = "built"
  /\ Len(input) = 2
  /\ input[1].role = "user" /\ input[1].content = "q"
  /\ input[2].role = "user" /\ input[2].content = "p"
  /\ ctx.currentPrompt = "p"
  /\ sess.mode = "BASIC"
  /\ Len(sess.entries) = 1

\* C18: when the last message of a non-empty list is no user message, the
\* prompt is empty and the transcript the session is opened with has an
\* entry made from every message of the list.
NonUserLastKeepsEveryMessage ==
  (sess.mode # "none" /\ ~LastIsUser) =>
    /\ ctx.currentPrompt = ""
    /\ \A k \in 1 .. Len(input) : EntriesOf(sess.entries, k) # {}

\* The ids of the records the tool messages of the list carry, and the first
\* message that carries an id.
CarriedBy(k) ==
  IF lowercased(input[k].role) = "tool"
  THEN {input[k].records[j].id : j \in 1 .. Len(input[k].records)}
  ELSE {}

FirstCarrier(id) ==
  CHOOSE k \in 1 .. Len(input) :
    id \in CarriedBy(k) /\ \A h \in 1 .. k - 1 : id \notin CarriedBy(h)

\* C19: the transcript of a built context has, for every id a record of a
\* tool message carries, exactly one tool output with that id, and it was
\* made from the first message that carries the id.
OneToolOutputPerId ==
  ctx.state = "built" =>
    \A k \in 1 .. Len(input) : \A id \in CarriedBy(k) :
      LET outs == {j \in 1 .. Len(ctx.transcriptEntries) :
                     /\ ctx.transcriptEntries[j].kind = "toolOutput"
                     /\ ctx.transcriptEntries[j].id = id}
      IN /\ Cardinality(outs) = 1
         /\ \A j \in outs : ctx.transcriptEntries[j].msg = FirstCarrier(id)

\* C20: in every mode, the transcript the session is opened with has for
\* every system message an instructions entry made from it, with the text of
\* the message and no tool definitions, and its entries follow the order of
\* the messages.
SystemBecomesInstructionsInPlace ==
  sess.mode # "none" =>
    /\ \A k \in 1 .. Len(input) :
         lowercased(input[k].role) = "system" =>
           \E j \in EntriesOf(sess.entries, k) :
             /\ sess.entries[j].kind = "instructions"
             /\ sess.entries[j].segments = <<ContentOrEmpty(input[k])>>
             /\ sess.entries[j].tools = 0
    /\ \A i, j \in 1 .. Len(sess.entries) :
         i < j => sess.entries[i].msg <= sess.entries[j].msg


\* C21: an assistant message whose tool_calls is non-empty and has an id and
\* a function name in every call becomes one ToolCalls entry listing the id
\* and name of each call; every other assistant message becomes one Response
\* entry whose text is the content of the message.
WellFormedToolCalls(message) ==
  /\ message.tool_calls # <<>>
  /\ \A j \in 1 .. Len(message.tool_calls) :
       message.tool_calls[j].id # 0 /\ message.tool_calls[j].name # NoName

AssistantEntryByToolCalls ==
  ctx.state = "built" =>
    \A k \in 1 .. Len(input) :
      lowercased(input[k].role) = "assistant" =>
        LET es == EntriesOf(ctx.transcriptEntries, k) IN
        /\ Cardinality(es) = 1
        /\ \A j \in es :
             IF WellFormedToolCalls(input[k])
             THEN /\ ctx.transcriptEntries[j].kind = "toolCalls"
                  /\ ctx.transcriptEntries[j].calls = input[k].tool_calls
             ELSE /\ ctx.transcriptEntries[j].kind = "response"
                  /\ ctx.transcriptEntries[j].text = ContentOrEmpty(input[k])


\* The error kinds of the specification among the errors of the native
\* layer: ModelUnavailable is intelligenceUnavailable, InvalidInput is
\* invalidJSON or noMessages.
InvalidInput == {"invalidJSON", "noMessages"}

\* C22: a request that meets an unavailable model fails with
\* intelligenceUnavailable whatever else is wrong with it, no mode handler
\* has run for it (no transcript, no collector or coordinator reset), and
\* the request has registered no tool callback.
UnavailableFailsFirst ==
  (nat.phase = "done" /\ ~nat.faults.avail) =>
    /\ nat.error = "intelligenceUnavailable"
    /\ nat.mode = "none"
    /\ ~(js.api = "chat" /\ js.toolMapSize > 0)

\* C23: a request whose message list is empty fails with noMessages, no
\* session is opened for it, the native layer emits no text and returns no
\* result, and its caller gets no chunk and no result.
EmptyMessagesFailEarly ==
  (nat.faults.avail /\ nat.faults.msgs = "empty") =>
    /\ nat.phase = "done"
    /\ nat.error = "noMessages"
    /\ nat.mode = "none"
    /\ nat.yields = 0 /\ nat.calls = 0
    /\ EmittedTexts(nat.out) = <<>>
    /\ nat.result \in {"none", "error"}
    /\ cons.recv = <<>>
    /\ cons.result = "none"

EmptyMessagesStreamFailed ==
  /\ nat.faults.avail
  /\ nat.faults.msgs = "empty"
  /\ js.api = "chat"
  /\ js.stream
  /\ js.toolMapSize > 0
  /\ cons.outcome = "error"

\* C24: a request that fails because its messages, tools or schema JSON
\* could not be decoded fails with an InvalidInput error.
DecodeFailure ==
  /\ nat.faults.avail
  /\ \/ nat.faults.msgs = "undecodable"
     \/ nat.faults.msgs = "ok" /\ nat.faults.modeIn \in {"notJson", "wrongShape"}

DecodeFailuresAreInvalidInput ==
  (DecodeFailure /\ nat.phase = "done") => nat.error \in InvalidInput

\* C29: a non-streaming call whose native generation failed is rejected and
\* has no result.
FailedCallRejects ==
  (req.id > 0 /\ js.api # "none" /\ ~js.stream /\ nat.failed
     /\ cons.outcome # "none") =>
    /\ cons.outcome = "rejected"
    /\ cons.result = "none"

PlainCompletionRejected ==
  /\ req.entry = "chatCompletions"
  /\ js.api = "generateResponseWithHistory"
  /\ nat.error = "other"
  /\ nat.faults = NoFaults
  /\ cons.outcome = "rejected"

\* C30: chatCompletions answers a request that failed in the dispatcher
\* with 503 for ModelUnavailable, 400 for InvalidInput and for a schema that
\* does not compile, and 500 for any other failure.
HttpStatusByErrorKind ==
  (req.entry = "chatCompletions" /\ nat.failed /\ http.ended) =>
    http.status =
      CASE nat.error = "intelligenceUnavailable" -> 503
        [] nat.error \in InvalidInput -> 400
        [] nat.error = "other" /\ nat.faults = [NoFaults EXCEPT !.modeIn = "uncompilable"] -> 400
        [] OTHER -> 500


OneModePerInvocation ==
  \A i \in 1 .. Len(invs) :
    LET fireAndCollect == invs[i].collected \/ invs[i].appended
        executeLocally == invs[i].handlerRan
        external == invs[i].pending \/ (bridge.variant = "streamChatWithExternalTools"
                                         /\ invs[i].result = "value")
    IN \/ fireAndCollect /\ ~executeLocally /\ ~external
       \/ ~fireAndCollect /\ executeLocally /\ ~external
       \/ ~fireAndCollect /\ ~executeLocally /\ external


\* C26: a non-streaming chat() request in TOOLS mode resolves with empty
\* text and the tool calls when the runtime called a tool at least once
\* during the generation, and with the response text and no toolCalls
\* otherwise.
ToolCallsResultIffCollected ==
  (js.api = "chat" /\ ~js.stream /\ nat.mode = "TOOLS"
     /\ cons.outcome = "resolved") =>
    cons.result = IF nat.calls >= 1 THEN "toolCalls" ELSE "text"

SecondRequestReturnsToolCalls ==
  /\ req.id = 2
  /\ js.api = "chat"
  /\ ~js.stream
  /\ nat.mode = "TOOLS"
  /\ nat.calls = 1
  /\ cons.outcome = "resolved"
  /\ cons.result = "toolCalls"


\* The contents of the system messages of a list, in order.
RECURSIVE SystemContents(_, _)
SystemContents(messages, k) ==
  IF k > Len(messages) THEN <<>>
  ELSE IF lowercased(messages[k].role) = "system" /\ messages[k].content # NoContent
  THEN <<messages[k].content>> \o SystemContents(messages, k + 1)
  ELSE SystemContents(messages, k + 1)

\* C28: the transcript of a TOOLS session has an instructions entry first
\* and nowhere else; the entry carries the contents of the system messages
\* of the request and the definitions of all its tools.
ToolsTranscriptStartsWithInstructions ==
  sess.mode = "TOOLS" =>
    /\ sess.entries # <<>>
    /\ sess.entries[1].kind = "instructions"
    /\ \A j \in 2 .. Len(sess.entries) : sess.entries[j].kind # "instructions"
    /\ sess.entries[1].segments = SystemContents(input, 1)
    /\ sess.entries[1].tools = sess.tools

\* C31: a streaming chatCompletions response that ends without an error line
\* has `data: [DONE]` as its last line, after every content line; the line is
\* never written twice and nothing follows it: the response is ended with it.
HttpStreamServed ==
  req.entry = "chatCompletions" /\ req.stream /\ js.api # "none"

DoneLineLastAndOnce ==
  HttpStreamServed =>
    /\ \A i \in 1..Len(http.out) :
         http.out[i] = "[DONE]" => i = Len(http.out) /\ http.ended
    /\ (http.ended /\ \A i \in 1..Len(http.out) : http.out[i] # "error") =>
         /\ http.out # <<>>
         /\ http.out[Len(http.out)] = "[DONE]"
         /\ \A i \in 1..(Len(http.out) - 1) : http.out[i] = "data"

ToolsStreamEndedWithDone ==
  /\ HttpStreamServed
  /\ nat.mode = "TOOLS"
  /\ ~nat.failed
  /\ http.ended
  /\ Len(http.out) = 3
  /\ http.out[3] = "[DONE]"

\* C32: with a bearer token configured, a request is answered 401 without
\* reaching a route handler exactly when it is not a health-check request and
\* its Authorization header is not "Bearer " followed by the token; a
\* health-check request (one the health route serves) needs no credentials.
IsHealthCheck(url) == RouteOf(url) = "health"

Authorized(authorization, token) ==
  authorization.present /\ authorization.value = Bearer \o token

RefusedIffNotHealthAndNotAuthorized ==
  (server.bearerToken # NoToken /\ hreq.stage = "done") =>
    /\ (hres.status = 401 /\ hres.handler = "none")
         <=> (~IsHealthCheck(hreq.url)
                /\ ~Authorized(hreq.authorization, server.bearerToken))
    /\ hres.status # 401 => hres.handler = RouteOf(hreq.url)

\* C33: an anyOf whose alternatives are all single-value string enums compiles
\* to one string-choice type over those values; any other anyOf compiles to a
\* union that contains the compiled schema of every one of its alternatives.
AllSingleEnums(alternatives) ==
  /\ alternatives # <<>>
  /\ \A i \in 1..Len(alternatives) : IsSingleEnum(alternatives[i])

AnyOfKeepsEveryAlternative ==
  (schemaIn.kind = "anyOf" /\ dynamic # [kind |-> "none"]) =>
    LET alternatives == schemaIn.alternatives IN
    IF AllSingleEnums(alternatives)
    THEN dynamic = [kind |-> "choice",
                    values |-> [i \in 1..Len(alternatives) |->
                                  alternatives[i].values[1]]]
    ELSE /\ dynamic.kind = "union"
         /\ \A i \in 1..Len(alternatives) :
              \E j \in 1..Len(dynamic.choices) :
                dynamic.choices[j] = convertJSONSchemaToDynamic(alternatives[i])

\* C34: when a streaming generation has ended normally and was not left early,
\* the deltas emitted by the native layer, put together in order, are the last
\* cumulative text the runtime reported; so are the texts the consumer got
\* once it has seen the end of the stream.
RECURSIVE Concat(_)
Concat(texts) ==
  IF texts = <<>> THEN <<>> ELSE Head(texts) \o Concat(Tail(texts))

EndedNormally ==
  nat.streaming /\ nat.phase = "done" /\ ~nat.failed /\ ~nat.early

DeltasMakeLastCumulative ==
  EndedNormally =>
    /\ Concat(EmittedTexts(nat.out)) = nat.last
    /\ cons.outcome = "end" => Concat(ReceivedTexts(cons.recv)) = nat.last

TwoDeltasReceived ==
  /\ EndedNormally
  /\ nat.mode = "TOOLS"
  /\ nat.calls > 0
  /\ Len(nat.last) = 2
  /\ cons.outcome = "end"
  /\ Len(cons.recv) = 2

\* C35: among the onChunk calls of a streaming generation at most one is a
\* terminal signal (the nil of the end of the stream, or an error) and it is
\* the last call: never both signals, and no chunk after either.
IsTerminal(raw) == raw.nil \/ raw.sentinel

AtMostOneTerminalAndLast ==
  \A i \in 1..Len(nat.out) : IsTerminal(nat.out[i]) => i = Len(nat.out)

ErrorAfterAChunk ==
  /\ nat.streaming
  /\ nat.failed
  /\ Len(nat.out) = 2
  /\ ~IsTerminal(nat.out[1])
  /\ nat.out[2].sentinel

\* C36: no onChunk call other than a terminal signal carries the empty
\* string, and the JS side of a stream is closed (ended, done) only once the
\* generation has stopped producing text.
NoEmptyChunkNoEarlyClose ==
  /\ \A i \in 1..Len(nat.out) :
       ~IsTerminal(nat.out[i]) => nat.out[i].text # <<>>
  /\ (js.stream /\ (strm.ended \/ strm.done)) => nat.phase = "done"

RepeatedSnapshotKeepsStreamOpen ==
  /\ nat.phase = "session"
  /\ nat.streaming
  /\ nat.yields = 2
  /\ Len(nat.last) = 1
  /\ Len(nat.out) = 1
  /\ chan = <<>>
  /\ ~strm.ended
  /\ ~strm.done

\* C37: the toolCalls of a non-streaming tools request are the invocations
\* its own session made, all of them and no other: one record per invocation
\* of the request, none of another request's.
OwnCalls(r) == [i \in 1..reqs[r].calls |-> r]

ToolCallsAreOwnInvocations ==
  \A r \in TwoRequests :
    (~reqs[r].stream /\ reqs[r].phase \in {"ending", "done"}) =>
      reqs[r].got = OwnCalls(r)

\* C38: once streamChatForVercelAISDK has seen the end of the generation, the
\* tool-call events of its stream are the collected tool calls, each once and
\* in the order they were collected; every text event comes before them; the
\* stream is ended once, and a further end signal changes nothing.
ToolCallItems(events) ==
  LET calls == SelectSeq(events, LAMBDA e : e.type = "tool-call") IN
  [i \in 1..Len(calls) |-> calls[i].item]

TextsBeforeToolCalls(events) ==
  \A i, j \in 1..Len(events) :
    (events[i].type = "tool-call" /\ events[j].type = "text") => j < i

CollectedCallsEmittedOnceAtEnd ==
  vercel.generationComplete =>
    /\ ToolCallItems(vercel.events) = vercel.collected
    /\ TextsBeforeToolCalls(vercel.events)
    /\ vercel.eofs = 1
    /\ Len(vercel.events) = vercel.texts + Len(vercel.collected)

TwoCallsEmittedAndEndRepeated ==
  /\ vercel.generationComplete
  /\ vercel.ends = 2
  /\ vercel.collected = <<2, 1>>
  /\ vercel.texts = 1
  /\ Len(vercel.events) = 3

\* C39: once return() was called on an iterator of streamChatCompletion or
\* streamResponse, no next() called after it delivers a chunk: the consumer
\* has at most the chunks it had, and the one a waiting next() was still to
\* get.
NoChunkAfterReturn ==
  strm.returned => Len(cons.recv) <= strm.allowed

\* C40: whatever the entry point, the mode a request is generated in is the
\* mode the dispatcher would choose for the request itself: tools mode when
\* tools are present, also with a schema or JSON response format asked for;
\* else structured mode with a schema; else basic mode.
RequestMode(tools, schema) == NativeMode(ChatToolsJson(tools), schema)

EntryPointsAgreeWithDispatcher ==
  sel.stage = "dispatched" => sel.mode = RequestMode(sel.tools, sel.schema)

====
